---------------------------- MODULE Spec2Model ----------------------------
(***************************************************************************)
(* debos: Command.Run (commands.go) -- running a command on the host, in   *)
(* a chroot or in a systemd-nspawn container, with the resolv.conf guard,  *)
(* the qemu helper and the service helper around it.                       *)
(*                                                                         *)
(* Files are records [kind, data]; a file's bytes are a sequence of lines. *)
(* Each caller of Run is a process p with a program counter pc[p]; the     *)
(* deferred calls of Run are kept on the stack defers[p] and run in LIFO   *)
(* order when Run returns.                                                 *)
(***************************************************************************)
EXTENDS Integers, Sequences, FiniteSets, TLC

VARIABLES
    GOARCH,     \* runtime.GOARCH of the build
    hostconf,   \* content of the host's /etc/resolv.conf
    conf,       \* conf[c]:  the file at <c>/etc/resolv.conf
    saved,      \* saved[c]: the file at <c>/etc/resolv.conf.debos
    bins,       \* paths at which a qemu static binary is present
    gate,       \* gate[c]: state of the service helper for chroot c
    aborted,    \* log.Panicf was reached: the program is gone
    pc,         \* pc[p]: position of caller p in Run
    cmd,        \* cmd[p]: the Command (receiver of Run)
    cmdline,    \* cmdline[p]: the cmdline argument of Run
    q,          \* q[p]: the qemuHelper of the call
    options,    \* options[p]: the assembled argument vector
    exeEnv,     \* exeEnv[p]: exe.Env (<<>> = inherit the environment)
    resolvsum,  \* resolvsum[p]: checksum returned by saveResolvConf
    err,        \* err[p]: the value Run returns
    defers,     \* defers[p]: deferred calls, last registered last
    trace,      \* trace[p]: what this call of Run has done so far
    pre,        \* pre[p]: resolv.conf and side-car when Run was entered
    orig0,      \* orig0[c]: resolv.conf of the chroot before the first Run
    untouched,  \* untouched[c]: no command has touched resolv.conf of c so far
    iosound,    \* iosound[c]: no file operation of Run has failed on c so far
    callLog,    \* the Add* calls made on the Command under construction
    wbuffer,    \* commandWrapper: the bytes of w.buffer
    logged,     \* commandWrapper: the lines given to the log so far
    stream,     \* commandWrapper: all bytes given to Write so far
    flushed,    \* commandWrapper: flush has been called
    action,     \* install-dpkg: the InstallDpkgAction (receiver of Run)
    apc,        \* install-dpkg: position in InstallDpkgAction.Run
    aptCommand, \* install-dpkg: the Command of the apt wrapper
    resolved,   \* install-dpkg: the packages found, as full paths
    packages,   \* install-dpkg: the packages as they are given to Install
    aptCalls,   \* install-dpkg: the apt operations called so far
    aerr        \* install-dpkg: the value Run returns

vars == <<GOARCH, hostconf, conf, saved, bins, gate, aborted, pc, cmd,
          cmdline, q, options, exeEnv, resolvsum, err, defers, trace, pre,
          orig0, untouched, iosound,
          callLog,
          wbuffer, logged, stream, flushed,
          action, apc, aptCommand, resolved, packages, aptCalls, aerr>>

-----------------------------------------------------------------------------
(* Bounds *)

\* number of AddEnv / AddEnvKey / AddBindMount calls on one Command
MaxCalls == 2

-----------------------------------------------------------------------------
(* Values *)

Procs == {1, 2}
SerialProcs == {1}

Chroots == {"/build/root", "/srv/other"}

CHROOT_METHOD_NONE == 0
CHROOT_METHOD_NSPAWN == 1
CHROOT_METHOD_CHROOT == 2
ChrootEnterMethod == {CHROOT_METHOD_NONE, CHROOT_METHOD_NSPAWN, CHROOT_METHOD_CHROOT}

\* values of runtime.GOARCH
GoArchs == {"386", "amd64", "arm", "arm64", "mips", "mipsle", "mips64",
            "mips64le", "ppc64le", "riscv64", "s390x"}

SupportedArchs == {"armhf", "armel", "arm", "arm64", "mips", "mipsel",
                   "mips64el", "riscv64", "i386", "amd64"}

\* Architecture values a recipe may carry: "" (same as host), the supported
\* ones and two that newQemuHelper does not know
Architectures == SupportedArchs \cup {"", "sparc", "ppc64el"}

NoFile == [kind |-> "absent", data |-> <<>>]
Regular(d) == [kind |-> "regular", data |-> d]
Symlink == [kind |-> "symlink", data |-> <<>>]
\* neither regular nor symlink: a fifo, socket or device node
Special == [kind |-> "special", data |-> <<>>]

Exists(f) == f.kind # "absent"

OrigData == <<"nameserver 10.0.0.1">>
HostData == <<"nameserver 192.168.1.1">>
CmdData == <<"nameserver 127.0.0.53">>

NilSum == [nil |-> TRUE, digest |-> <<>>]

\* sha256.Sum256: collision free on the contents of the model
Sum256(data) == [nil |-> FALSE, digest |-> <<"sha256">> \o data]

\* the Command struct literal
Command(arch, chroot, method) ==
    [Architecture |-> arch, Chroot |-> chroot, ChrootMethod |-> method,
     bindMounts |-> <<>>, extraEnv |-> <<>>]

NoQemu == [qemusrc |-> "", qemutarget |-> ""]

-----------------------------------------------------------------------------
(* Command.AddEnv / AddEnvKey / AddBindMount *)

AddEnv(c, env) == [c EXCEPT !.extraEnv = Append(@, env)]

AddEnvKey(c, key, value) ==
    [c EXCEPT !.extraEnv = Append(@, key \o "=" \o value)]

\* AddBindMount putting the new mount first
AddBindMount_Prepend(c, source, target) ==
    LET mount == IF target # "" THEN source \o ":" \o target ELSE source
    IN  [c EXCEPT !.bindMounts = <<mount>> \o @]

AddBindMount(c, source, target) ==
    LET mount == IF target # "" THEN source \o ":" \o target ELSE source
    IN  [c EXCEPT !.bindMounts = Append(@, mount)]

-----------------------------------------------------------------------------
(* newQemuHelper, qemuHelper.Setup, qemuHelper.Cleanup *)

\* the switch with an arm host not taken as able to run armhf/armel/arm
qemuSwitch_ArmHostForgotten(arch, goarch) ==
    CASE arch \in {"armhf", "armel", "arm"} ->
            [src |-> IF goarch # "arm64"
                     THEN "/usr/bin/qemu-arm-static" ELSE "", panic |-> FALSE]
      [] arch = "arm64" ->
            [src |-> IF goarch # "arm64"
                     THEN "/usr/bin/qemu-aarch64-static" ELSE "", panic |-> FALSE]
      [] arch = "mips" ->
            [src |-> "/usr/bin/qemu-mips-static", panic |-> FALSE]
      [] arch = "mipsel" ->
            [src |-> IF goarch # "mips64le" /\ goarch # "mipsle"
                     THEN "/usr/bin/qemu-mipsel-static" ELSE "", panic |-> FALSE]
      [] arch = "mips64el" ->
            [src |-> IF goarch # "mips64le"
                     THEN "/usr/bin/qemu-mips64el-static" ELSE "", panic |-> FALSE]
      [] arch = "riscv64" ->
            [src |-> IF goarch # "riscv64"
                     THEN "/usr/bin/qemu-riscv64-static" ELSE "", panic |-> FALSE]
      [] arch = "i386" ->
            [src |-> IF goarch # "amd64" /\ goarch # "386"
                     THEN "/usr/bin/qemu-i386-static" ELSE "", panic |-> FALSE]
      [] arch = "amd64" ->
            [src |-> IF goarch # "amd64"
                     THEN "/usr/bin/qemu-x86_64-static" ELSE "", panic |-> FALSE]
      [] OTHER -> [src |-> "", panic |-> TRUE]

\* the switch on c.Architecture: the binary, "" when none is needed,
\* and whether the default branch (log.Panicf) was taken
qemuSwitch(arch, goarch) ==
    CASE arch \in {"armhf", "armel", "arm"} ->
            [src |-> IF goarch # "arm64" /\ goarch # "arm"
                     THEN "/usr/bin/qemu-arm-static" ELSE "", panic |-> FALSE]
      [] arch = "arm64" ->
            [src |-> IF goarch # "arm64"
                     THEN "/usr/bin/qemu-aarch64-static" ELSE "", panic |-> FALSE]
      [] arch = "mips" ->
            [src |-> "/usr/bin/qemu-mips-static", panic |-> FALSE]
      [] arch = "mipsel" ->
            [src |-> IF goarch # "mips64le" /\ goarch # "mipsle"
                     THEN "/usr/bin/qemu-mipsel-static" ELSE "", panic |-> FALSE]
      [] arch = "mips64el" ->
            [src |-> IF goarch # "mips64le"
                     THEN "/usr/bin/qemu-mips64el-static" ELSE "", panic |-> FALSE]
      [] arch = "riscv64" ->
            [src |-> IF goarch # "riscv64"
                     THEN "/usr/bin/qemu-riscv64-static" ELSE "", panic |-> FALSE]
      [] arch = "i386" ->
            [src |-> IF goarch # "amd64" /\ goarch # "386"
                     THEN "/usr/bin/qemu-i386-static" ELSE "", panic |-> FALSE]
      [] arch = "amd64" ->
            [src |-> IF goarch # "amd64"
                     THEN "/usr/bin/qemu-x86_64-static" ELSE "", panic |-> FALSE]
      [] OTHER -> [src |-> "", panic |-> TRUE]

\* the result: [qemusrc, qemutarget, panic]
newQemuHelper(c, goarch) ==
    IF c.Chroot = "" \/ c.Architecture = ""
    THEN [qemusrc |-> "", qemutarget |-> "", panic |-> FALSE]
    ELSE LET s == qemuSwitch(c.Architecture, goarch)
         IN  [qemusrc |-> s.src,
              \* path.Join(c.Chroot, q.qemusrc)
              qemutarget |-> IF s.src # "" THEN c.Chroot \o s.src ELSE "",
              panic |-> s.panic]

\* CopyFile(src, dst, 0755): dst is there afterwards, or an error
CopyFile(files, dst, ok) ==
    IF ok THEN [files |-> files \cup {dst}, err |-> "nil"]
          ELSE [files |-> files, err |-> "ErrCopy"]

\* Setup reporting success without copying the binary
qemuSetup_NoCopy(qh, files, ok) == [files |-> files, err |-> "nil"]

\* qemuHelper.Setup
qemuSetup(qh, files, ok) ==
    IF qh.qemusrc = "" THEN [files |-> files, err |-> "nil"]
    ELSE CopyFile(files, qh.qemutarget, ok)

\* Cleanup removing the binaries injected into every chroot
qemuCleanup_EveryChroot(qh, files) ==
    IF qh.qemusrc # "" THEN {} ELSE files

\* qemuHelper.Cleanup
qemuCleanup(qh, files) ==
    IF qh.qemusrc # "" THEN files \ {qh.qemutarget} ELSE files

-----------------------------------------------------------------------------
(* The argument vector and the environment, Run lines 217-256 *)

RECURSIVE FlagEach(_, _)
\* for _, x := range xs { options = append(options, flag, x) }
FlagEach(flag, xs) ==
    IF xs = <<>> THEN <<>>
    ELSE <<flag, Head(xs)>> \o FlagEach(flag, Tail(xs))

assembleOptions(c, cl) ==
    CASE c.ChrootMethod = CHROOT_METHOD_NONE -> cl
      [] c.ChrootMethod = CHROOT_METHOD_CHROOT -> <<"chroot", c.Chroot>> \o cl
      [] c.ChrootMethod = CHROOT_METHOD_NSPAWN ->
            <<"systemd-nspawn", "-q", "--resolv-conf=off", "--timezone=off",
              "--register=no", "--keep-unit", "--console=pipe">>
            \o FlagEach("--setenv", c.extraEnv)
            \o FlagEach("--bind", c.bindMounts)
            \o <<"-D", c.Chroot>>
            \o cl

\* exe.Env set for no isolation mode at all
assembleEnv_NeverSet(c) == <<>>

\* exe.Env: os.Environ() is the one element "os.Environ"
assembleEnv(c) ==
    IF Len(c.extraEnv) > 0 /\ c.ChrootMethod # CHROOT_METHOD_NSPAWN
    THEN <<"os.Environ">> \o c.extraEnv
    ELSE <<>>

-----------------------------------------------------------------------------
(* Command.saveResolvConf and Command.restoreResolvConf *)

Marker == <<"# Automatically generated by Debos">>

\* fail names the file operation that fails in this call, "none" if none:
\* "rename", "read", "write" (the file could not be created) or
\* "writepart" (it was created and the write failed)
SaveFails == {"none", "rename", "read", "write", "writepart"}

\* the result: [conf, saved, sum, err]
saveResolvConf(method, c, s, host, fail) ==
    IF method = CHROOT_METHOD_NONE
    THEN [conf |-> c, saved |-> s, sum |-> NilSum, err |-> "nil"]
    ELSE IF Exists(c) /\ fail = "rename"
    THEN [conf |-> c, saved |-> s, sum |-> NilSum, err |-> "ErrRename"]
    ELSE LET s1 == IF Exists(c) THEN c ELSE s
             out == Marker \o host
         IN  CASE fail = "read" ->
                    [conf |-> NoFile, saved |-> s1, sum |-> NilSum, err |-> "ErrRead"]
               [] fail = "write" ->
                    [conf |-> NoFile, saved |-> s1, sum |-> NilSum, err |-> "ErrWrite"]
               [] fail = "writepart" ->
                    [conf |-> Regular(<<>>), saved |-> s1, sum |-> NilSum, err |-> "ErrWrite"]
               [] OTHER ->
                    [conf |-> Regular(out), saved |-> s1, sum |-> Sum256(out), err |-> "nil"]

RestoreFails == {"none", "read", "remove", "rename"}

\* restoreResolvConf removing the overlay and not renaming the side-car back
restoreBody_NoRenameBack(c, s, sum, fail) ==
    CASE ~Exists(c) ->
            [conf |-> c, saved |-> s, err |-> "nil", warned |-> FALSE]
      [] c.kind = "regular" ->
            IF fail = "read"
            THEN [conf |-> c, saved |-> s, err |-> "ErrRead", warned |-> FALSE]
            ELSE IF Sum256(c.data) # sum
            THEN [conf |-> c, saved |-> s, err |-> "nil", warned |-> FALSE]
            ELSE IF fail = "remove"
            THEN [conf |-> c, saved |-> s, err |-> "ErrRemove", warned |-> FALSE]
            ELSE [conf |-> NoFile, saved |-> s, err |-> "nil", warned |-> FALSE]
      [] c.kind = "symlink" ->
            [conf |-> c, saved |-> s, err |-> "nil", warned |-> FALSE]
      [] OTHER ->
            [conf |-> c, saved |-> s, err |-> "nil", warned |-> TRUE]

\* restoreResolvConf restoring over whatever regular file it finds
restoreBody_NoChecksum(c, s, sum, fail) ==
    CASE ~Exists(c) ->
            [conf |-> c, saved |-> s, err |-> "nil", warned |-> FALSE]
      [] c.kind = "regular" ->
            IF fail = "read"
            THEN [conf |-> c, saved |-> s, err |-> "ErrRead", warned |-> FALSE]
            ELSE IF fail = "remove"
            THEN [conf |-> c, saved |-> s, err |-> "ErrRemove", warned |-> FALSE]
            ELSE IF ~Exists(s)
            THEN [conf |-> NoFile, saved |-> s, err |-> "nil", warned |-> FALSE]
            ELSE IF fail = "rename"
            THEN [conf |-> NoFile, saved |-> s, err |-> "ErrRename", warned |-> FALSE]
            ELSE [conf |-> s, saved |-> NoFile, err |-> "nil", warned |-> FALSE]
      [] c.kind = "symlink" ->
            [conf |-> c, saved |-> s, err |-> "nil", warned |-> FALSE]
      [] OTHER ->
            [conf |-> c, saved |-> s, err |-> "nil", warned |-> TRUE]

\* the body of restoreResolvConf before the deferred os.Remove(savedconf):
\* [conf, saved, err, warned]
restoreBody(c, s, sum, fail) ==
    CASE ~Exists(c) ->
            [conf |-> c, saved |-> s, err |-> "nil", warned |-> FALSE]
      [] c.kind = "regular" ->
            IF fail = "read"
            THEN [conf |-> c, saved |-> s, err |-> "ErrRead", warned |-> FALSE]
            ELSE IF Sum256(c.data) # sum
            THEN [conf |-> c, saved |-> s, err |-> "nil", warned |-> FALSE]
            ELSE IF fail = "remove"
            THEN [conf |-> c, saved |-> s, err |-> "ErrRemove", warned |-> FALSE]
            ELSE IF ~Exists(s)
            THEN [conf |-> NoFile, saved |-> s, err |-> "nil", warned |-> FALSE]
            ELSE IF fail = "rename"
            THEN [conf |-> NoFile, saved |-> s, err |-> "ErrRename", warned |-> FALSE]
            ELSE [conf |-> s, saved |-> NoFile, err |-> "nil", warned |-> FALSE]
      [] c.kind = "symlink" ->
            [conf |-> c, saved |-> s, err |-> "nil", warned |-> FALSE]
      [] OTHER ->
            [conf |-> c, saved |-> s, err |-> "nil", warned |-> TRUE]

\* restoreResolvConf without its deferred os.Remove(savedconf)
restoreResolvConf_KeepSidecar(method, c, s, sum, fail) ==
    IF method = CHROOT_METHOD_NONE \/ sum.nil
    THEN [conf |-> c, saved |-> s, err |-> "nil", warned |-> FALSE]
    ELSE restoreBody(c, s, sum, fail)

\* the result: [conf, saved, err, warned]
restoreResolvConf(method, c, s, sum, fail) ==
    IF method = CHROOT_METHOD_NONE \/ sum.nil
    THEN [conf |-> c, saved |-> s, err |-> "nil", warned |-> FALSE]
    ELSE LET r == restoreBody(c, s, sum, fail)
         IN  \* defer os.Remove(savedconf)
             [r EXCEPT !.saved = NoFile]

-----------------------------------------------------------------------------
(* Inputs *)

\* the Commands that Run is called on in Spec: every isolation mode, with
\* and without a chroot, with and without emulation, with an unknown
\* architecture, with and without extra environment and bind mounts
RunArchs == {"", "armhf", "sparc"}

RunCommands ==
    LET bare == {Command(a, c, m) : a \in RunArchs, c \in {"", "/build/root"},
                                    m \in ChrootEnterMethod}
        ok   == {c \in bare : c.ChrootMethod # CHROOT_METHOD_NONE => c.Chroot # ""}
    IN  ok \cup {AddBindMount(AddEnv(c, "LANG=C"), "/pkg/app.deb", "") :
                    c \in {d \in ok : d.Architecture = ""}}

CmdLines == {<<"apt-get", "update">>}

\* what the wrapped command may do to /etc/resolv.conf while it runs
Touches == {"write", "delete", "symlink", "special"}

Touched(how) ==
    CASE how = "write" -> Regular(CmdData)
      [] how = "delete" -> NoFile
      [] how = "symlink" -> Symlink
      [] OTHER -> Special

\* resolv.conf of a root filesystem before debos has run anything in it
InitialConfs == {NoFile, Regular(OrigData), Symlink}

Has(t, e) == \E i \in DOMAIN t : t[i] = e
Count(t, e) == Cardinality({i \in DOMAIN t : t[i] = e})
\* position of the first e in t, 0 when there is none
Pos(t, e) == IF Has(t, e) THEN CHOOSE i \in DOMAIN t : t[i] = e /\ \A j \in 1..(i-1) : t[j] # e
             ELSE 0

\* the wrapped command has replaced or removed resolv.conf in this run
WasTouched(t) == \E how \in Touches : Has(t, "touch-" \o how)

NoSnap == [conf |-> NoFile, saved |-> NoFile]
Snap(c) == IF c.Chroot = "" THEN NoSnap
           ELSE [conf |-> conf[c.Chroot], saved |-> saved[c.Chroot]]

fsVars == <<conf, saved, bins, gate>>
buildVars == <<GOARCH, hostconf, orig0>>
ghostVars == <<untouched, iosound>>
callVars == <<cmd, cmdline, pre, callLog>>
wrapVars == <<wbuffer, logged, stream, flushed>>
aptVars == <<action, apc, aptCommand, resolved, packages, aptCalls, aerr>>
otherVars == <<wrapVars, aptVars>>

-----------------------------------------------------------------------------
(* Init *)

InitRest ==
    /\ hostconf = HostData
    /\ \E f \in InitialConfs :
          /\ conf = [c \in Chroots |-> f]
          /\ orig0 = [c \in Chroots |-> f]
    /\ saved = [c \in Chroots |-> NoFile]
    /\ bins = {}
    /\ gate = [c \in Chroots |-> "allowed"]
    /\ aborted = FALSE
    /\ pc = [p \in Procs |-> "idle"]
    /\ cmd = [p \in Procs |-> Command("", "", CHROOT_METHOD_NONE)]
    /\ cmdline = [p \in Procs |-> <<>>]
    /\ q = [p \in Procs |-> NoQemu]
    /\ options = [p \in Procs |-> <<>>]
    /\ exeEnv = [p \in Procs |-> <<>>]
    /\ resolvsum = [p \in Procs |-> NilSum]
    /\ err = [p \in Procs |-> "nil"]
    /\ defers = [p \in Procs |-> <<>>]
    /\ trace = [p \in Procs |-> <<>>]
    /\ pre = [p \in Procs |-> NoSnap]
    /\ untouched = [c \in Chroots |-> TRUE]
    /\ iosound = [c \in Chroots |-> TRUE]
    /\ callLog = <<>>
    /\ wbuffer = <<>>
    /\ logged = <<>>
    /\ stream = <<>>
    /\ flushed = FALSE
    /\ action = [Origin |-> "", Packages |-> <<>>, Update |-> TRUE]
    /\ apc = "idle"
    /\ aptCommand = Command("", "", CHROOT_METHOD_NONE)
    /\ resolved = <<>>
    /\ packages = <<>>
    /\ aptCalls = <<>>
    /\ aerr = "nil"

Init ==
    /\ GOARCH \in {"amd64", "arm64"}
    /\ InitRest

-----------------------------------------------------------------------------
(* The caller: a Command is made, then Run is called on it *)

NewCommand(p, c) ==
    /\ ~aborted
    /\ pc[p] \in {"idle", "done"}
    /\ pc' = [pc EXCEPT ![p] = "built"]
    /\ cmd' = [cmd EXCEPT ![p] = c]
    /\ callLog' = <<>>
    /\ cmdline' = [cmdline EXCEPT ![p] = <<>>]
    /\ q' = [q EXCEPT ![p] = NoQemu]
    /\ options' = [options EXCEPT ![p] = <<>>]
    /\ exeEnv' = [exeEnv EXCEPT ![p] = <<>>]
    /\ resolvsum' = [resolvsum EXCEPT ![p] = NilSum]
    /\ err' = [err EXCEPT ![p] = "nil"]
    /\ defers' = [defers EXCEPT ![p] = <<>>]
    /\ trace' = [trace EXCEPT ![p] = <<>>]
    /\ pre' = [pre EXCEPT ![p] = NoSnap]
    /\ UNCHANGED <<fsVars, buildVars, otherVars, aborted, ghostVars>>

\* cmd.Run(label, cmdline...) is entered
Call(p, cl) ==
    /\ ~aborted
    /\ pc[p] = "built"
    /\ pc' = [pc EXCEPT ![p] = "qemu"]
    /\ cmdline' = [cmdline EXCEPT ![p] = cl]
    /\ pre' = [pre EXCEPT ![p] = Snap(cmd[p])]
    /\ UNCHANGED <<fsVars, buildVars, otherVars, aborted, ghostVars, cmd, callLog, q,
                   options, exeEnv, resolvsum, err, defers, trace>>

-----------------------------------------------------------------------------
(* Command.Run *)

\* q := newQemuHelper(cmd); q.Setup(); defer q.Cleanup()
\* The error Setup returns is dropped.
RunQemu(p, ok) ==
    /\ ~aborted
    /\ pc[p] = "qemu"
    /\ LET h == newQemuHelper(cmd[p], GOARCH)
           r == qemuSetup(h, bins, ok)
       IN  IF h.panic
           THEN /\ aborted' = TRUE
                /\ trace' = [trace EXCEPT ![p] = Append(@, "panic")]
                /\ UNCHANGED <<pc, q, bins, defers, ghostVars>>
           ELSE /\ q' = [q EXCEPT ![p] = [qemusrc |-> h.qemusrc, qemutarget |-> h.qemutarget]]
                /\ bins' = r.files
                /\ trace' = [trace EXCEPT ![p] =
                                IF h.qemusrc = "" THEN @
                                ELSE Append(@, IF r.err = "nil" THEN "copy" ELSE "copyfail")]
                /\ defers' = [defers EXCEPT ![p] = Append(@, "Cleanup")]
                /\ pc' = [pc EXCEPT ![p] = "assemble"]
                /\ iosound' = IF r.err = "nil" THEN iosound
                              ELSE [iosound EXCEPT ![cmd[p].Chroot] = FALSE]
                /\ UNCHANGED <<aborted, untouched>>
    /\ UNCHANGED <<buildVars, otherVars, callVars, conf, saved, gate, options, exeEnv,
                   resolvsum, err>>

\* RunAssemble without the defer of w.flush()
RunAssemble_FlushNotDeferred(p) ==
    /\ ~aborted
    /\ pc[p] = "assemble"
    /\ options' = [options EXCEPT ![p] = assembleOptions(cmd[p], cmdline[p])]
    /\ exeEnv' = [exeEnv EXCEPT ![p] = assembleEnv(cmd[p])]
    /\ pc' = [pc EXCEPT ![p] = "deny"]
    /\ UNCHANGED <<fsVars, buildVars, otherVars, callVars, aborted, ghostVars, q,
                   resolvsum, err, trace, defers>>

\* options, exe, w; defer w.flush(); exe.Env
RunAssemble(p) ==
    /\ ~aborted
    /\ pc[p] = "assemble"
    /\ options' = [options EXCEPT ![p] = assembleOptions(cmd[p], cmdline[p])]
    /\ exeEnv' = [exeEnv EXCEPT ![p] = assembleEnv(cmd[p])]
    /\ defers' = [defers EXCEPT ![p] = Append(@, "flush")]
    /\ pc' = [pc EXCEPT ![p] = "deny"]
    /\ UNCHANGED <<fsVars, buildVars, otherVars, callVars, aborted, ghostVars, q,
                   resolvsum, err, trace>>

\* RunDeny with services.Allow() called at once instead of deferred
RunDeny_AllowNotDeferred(p) ==
    /\ ~aborted
    /\ pc[p] = "deny"
    /\ IF cmd[p].ChrootMethod # CHROOT_METHOD_NONE
       THEN /\ gate' = [gate EXCEPT ![cmd[p].Chroot] = "allowed"]
            /\ trace' = [trace EXCEPT ![p] = @ \o <<"deny", "allow">>]
       ELSE UNCHANGED <<gate, trace>>
    /\ pc' = [pc EXCEPT ![p] = "save"]
    /\ UNCHANGED <<buildVars, otherVars, callVars, conf, saved, bins, aborted, ghostVars,
                   q, options, exeEnv, resolvsum, err, defers>>

\* services.Deny(); defer services.Allow()
RunDeny(p) ==
    /\ ~aborted
    /\ pc[p] = "deny"
    /\ IF cmd[p].ChrootMethod # CHROOT_METHOD_NONE
       THEN /\ gate' = [gate EXCEPT ![cmd[p].Chroot] = "denied"]
            /\ trace' = [trace EXCEPT ![p] = Append(@, "deny")]
            /\ defers' = [defers EXCEPT ![p] = Append(@, "Allow")]
       ELSE UNCHANGED <<gate, trace, defers>>
    /\ pc' = [pc EXCEPT ![p] = "save"]
    /\ UNCHANGED <<buildVars, otherVars, callVars, conf, saved, bins, aborted, ghostVars,
                   q, options, exeEnv, resolvsum, err>>

\* Run going on to exe.Run() whatever saveResolvConf returned
RunSave_IgnoreError(p, fail) ==
    /\ ~aborted
    /\ pc[p] = "save"
    /\ IF cmd[p].ChrootMethod = CHROOT_METHOD_NONE
       THEN /\ fail = "none"
            /\ UNCHANGED <<conf, saved, resolvsum, err, trace, ghostVars>>
       ELSE LET c == cmd[p].Chroot
                r == saveResolvConf(cmd[p].ChrootMethod, conf[c], saved[c], hostconf, fail)
            IN  /\ fail # "none" => r.err # "nil"
                /\ conf' = [conf EXCEPT ![c] = r.conf]
                /\ saved' = [saved EXCEPT ![c] = r.saved]
                /\ resolvsum' = [resolvsum EXCEPT ![p] = r.sum]
                /\ err' = [err EXCEPT ![p] = r.err]
                /\ trace' = [trace EXCEPT ![p] =
                                Append(@, IF r.err = "nil" THEN "save" ELSE "savefail")]
                /\ iosound' = [iosound EXCEPT ![c] = @ /\ r.err = "nil"]
                /\ UNCHANGED untouched
    /\ pc' = [pc EXCEPT ![p] = "exec"]
    /\ UNCHANGED <<buildVars, otherVars, callVars, bins, gate, aborted, q, options,
                   exeEnv, defers>>

\* resolvsum, err := cmd.saveResolvConf(); if err != nil { return err }
RunSave(p, fail) ==
    /\ ~aborted
    /\ pc[p] = "save"
    /\ IF cmd[p].ChrootMethod = CHROOT_METHOD_NONE
       THEN /\ fail = "none"
            /\ pc' = [pc EXCEPT ![p] = "exec"]
            /\ UNCHANGED <<conf, saved, resolvsum, err, trace, ghostVars>>
       ELSE LET c == cmd[p].Chroot
                r == saveResolvConf(cmd[p].ChrootMethod, conf[c], saved[c], hostconf, fail)
            IN  /\ fail # "none" => r.err # "nil"
                /\ conf' = [conf EXCEPT ![c] = r.conf]
                /\ saved' = [saved EXCEPT ![c] = r.saved]
                /\ resolvsum' = [resolvsum EXCEPT ![p] = r.sum]
                /\ err' = [err EXCEPT ![p] = r.err]
                /\ trace' = [trace EXCEPT ![p] =
                                Append(@, IF r.err = "nil" THEN "save" ELSE "savefail")]
                /\ iosound' = [iosound EXCEPT ![c] = @ /\ r.err = "nil"]
                /\ UNCHANGED untouched
                /\ pc' = [pc EXCEPT ![p] = IF r.err = "nil" THEN "exec" ELSE "unwind"]
    /\ UNCHANGED <<buildVars, otherVars, callVars, bins, gate, aborted, q, options,
                   exeEnv, defers>>

\* exe.Run(): the process is started, or cannot be
RunStart(p, ok) ==
    /\ ~aborted
    /\ pc[p] = "exec"
    /\ IF ok
       THEN /\ pc' = [pc EXCEPT ![p] = "running"]
            /\ trace' = [trace EXCEPT ![p] = Append(@, "spawn")]
            /\ UNCHANGED err
       ELSE /\ pc' = [pc EXCEPT ![p] = "unwind"]
            /\ trace' = [trace EXCEPT ![p] = Append(@, "spawnfail")]
            /\ err' = [err EXCEPT ![p] = "ErrSpawn"]
    /\ UNCHANGED <<fsVars, buildVars, otherVars, callVars, aborted, ghostVars, q, options,
                   exeEnv, resolvsum, defers>>

\* the wrapped command, running in the chroot, replaces or removes
\* /etc/resolv.conf (at most once in a run)
RunTouch(p, how) ==
    /\ ~aborted
    /\ pc[p] = "running"
    /\ cmd[p].ChrootMethod # CHROOT_METHOD_NONE
    /\ ~WasTouched(trace[p])
    /\ conf' = [conf EXCEPT ![cmd[p].Chroot] = Touched(how)]
    /\ trace' = [trace EXCEPT ![p] = Append(@, "touch-" \o how)]
    /\ untouched' = [untouched EXCEPT ![cmd[p].Chroot] = FALSE]
    /\ UNCHANGED iosound
    /\ UNCHANGED <<buildVars, otherVars, callVars, saved, bins, gate, aborted, pc, q,
                   options, exeEnv, resolvsum, err, defers>>

\* Run restoring resolv.conf whatever exe.Run() returned
afterExe_AlwaysRestore(ok) == "restore"

\* where Run goes when exe.Run() has returned: on to restoreResolvConf,
\* or out with the error
afterExe(ok) == IF ok THEN "restore" ELSE "unwind"

\* exe.Run(): the process has exited; if err != nil { return err }
RunExit(p, ok) ==
    /\ ~aborted
    /\ pc[p] = "running"
    /\ pc' = [pc EXCEPT ![p] = afterExe(ok)]
    /\ trace' = [trace EXCEPT ![p] = Append(@, IF ok THEN "exit0" ELSE "exit1")]
    /\ err' = [err EXCEPT ![p] = IF ok THEN "nil" ELSE "ErrExit"]
    /\ UNCHANGED <<fsVars, buildVars, otherVars, callVars, aborted, ghostVars, q, options,
                   exeEnv, resolvsum, defers>>

\* if err = cmd.restoreResolvConf(resolvsum); err != nil { return err }
\* return nil
RunRestore(p, fail) ==
    /\ ~aborted
    /\ pc[p] = "restore"
    /\ IF cmd[p].ChrootMethod = CHROOT_METHOD_NONE
       THEN /\ fail = "none"
            /\ UNCHANGED <<conf, saved, err, trace, ghostVars>>
       ELSE LET c == cmd[p].Chroot
                r == restoreResolvConf(cmd[p].ChrootMethod, conf[c], saved[c],
                                       resolvsum[p], fail)
            IN  /\ fail # "none" => r.err # "nil"
                /\ conf' = [conf EXCEPT ![c] = r.conf]
                /\ saved' = [saved EXCEPT ![c] = r.saved]
                /\ err' = [err EXCEPT ![p] = r.err]
                /\ trace' = [trace EXCEPT ![p] =
                                (IF r.warned THEN Append(@, "warn") ELSE @)
                                \o <<IF r.err = "nil" THEN "restore" ELSE "restorefail">>]
                /\ iosound' = [iosound EXCEPT ![c] = @ /\ r.err = "nil"]
                /\ UNCHANGED untouched
    /\ pc' = [pc EXCEPT ![p] = "unwind"]
    /\ UNCHANGED <<buildVars, otherVars, callVars, bins, gate, aborted, q, options,
                   exeEnv, resolvsum, defers>>

\* the deferred calls run in the order of their registration
RunDefer_Fifo(p) ==
    /\ ~aborted
    /\ pc[p] = "unwind"
    /\ defers[p] # <<>>
    /\ LET d == defers[p][1]
       IN  CASE d = "Allow" ->
                  /\ gate' = [gate EXCEPT ![cmd[p].Chroot] = "allowed"]
                  /\ trace' = [trace EXCEPT ![p] = Append(@, "allow")]
                  /\ UNCHANGED bins
             [] d = "flush" ->
                  /\ trace' = [trace EXCEPT ![p] = Append(@, "flush")]
                  /\ UNCHANGED <<gate, bins>>
             [] OTHER ->
                  /\ bins' = qemuCleanup(q[p], bins)
                  /\ trace' = [trace EXCEPT ![p] =
                                  IF q[p].qemusrc # "" THEN Append(@, "remove") ELSE @]
                  /\ UNCHANGED gate
    /\ defers' = [defers EXCEPT ![p] = Tail(@)]
    /\ UNCHANGED <<buildVars, otherVars, callVars, conf, saved, aborted, ghostVars, pc, q,
                   options, exeEnv, resolvsum, err>>

\* the deferred calls, last registered first
RunDefer(p) ==
    /\ ~aborted
    /\ pc[p] = "unwind"
    /\ defers[p] # <<>>
    /\ LET d == defers[p][Len(defers[p])]
       IN  CASE d = "Allow" ->
                  /\ gate' = [gate EXCEPT ![cmd[p].Chroot] = "allowed"]
                  /\ trace' = [trace EXCEPT ![p] = Append(@, "allow")]
                  /\ UNCHANGED bins
             [] d = "flush" ->
                  /\ trace' = [trace EXCEPT ![p] = Append(@, "flush")]
                  /\ UNCHANGED <<gate, bins>>
             [] OTHER ->
                  /\ bins' = qemuCleanup(q[p], bins)
                  /\ trace' = [trace EXCEPT ![p] =
                                  IF q[p].qemusrc # "" THEN Append(@, "remove") ELSE @]
                  /\ UNCHANGED gate
    /\ defers' = [defers EXCEPT ![p] = SubSeq(@, 1, Len(@) - 1)]
    /\ UNCHANGED <<buildVars, otherVars, callVars, conf, saved, aborted, ghostVars, pc, q,
                   options, exeEnv, resolvsum, err>>

\* Run has returned err[p] to its caller
RunReturn(p) ==
    /\ ~aborted
    /\ pc[p] = "unwind"
    /\ defers[p] = <<>>
    /\ pc' = [pc EXCEPT ![p] = "done"]
    /\ UNCHANGED <<fsVars, buildVars, otherVars, callVars, aborted, ghostVars, q, options,
                   exeEnv, resolvsum, err, defers, trace>>

-----------------------------------------------------------------------------
(* Spec: Run is called again and again by one caller, one call at a time *)

RunStep(p) ==
    \/ \E ok \in BOOLEAN : RunQemu(p, ok)
    \/ RunAssemble(p)
    \/ RunDeny(p)
    \/ \E fail \in SaveFails : RunSave(p, fail)
    \/ \E ok \in BOOLEAN : RunStart(p, ok)
    \/ \E how \in Touches : RunTouch(p, how)
    \/ \E ok \in BOOLEAN : RunExit(p, ok)
    \/ \E fail \in RestoreFails : RunRestore(p, fail)
    \/ RunDefer(p)
    \/ RunReturn(p)

Next ==
    \E p \in SerialProcs :
        \/ \E c \in RunCommands : NewCommand(p, c)
        \/ \E cl \in CmdLines : Call(p, cl)
        \/ RunStep(p)

Spec == Init /\ [][Next]_vars

-----------------------------------------------------------------------------
(* Properties of Spec *)

Method(p) == cmd[p].ChrootMethod
Root(p) == cmd[p].Chroot
InChroot(p) == Method(p) # CHROOT_METHOD_NONE
Returned(p) == pc[p] = "done"
Overlay == Regular(Marker \o hostconf)
CmdFailed(p) == Has(trace[p], "exit1") \/ Has(trace[p], "spawnfail")
Restored(p) == Has(trace[p], "restore") \/ Has(trace[p], "restorefail")

\* C1 as stated: after a Run in chroot or nspawn mode whose command exited
\* successfully without modifying resolv.conf (Run returned nil, and no
\* file operation of Run has ever failed on that chroot),
\* resolv.conf is what it was when Run was entered and there is no
\* side-car file.
C1_RoundTripAsStated ==
    \A p \in Procs :
        (Returned(p) /\ InChroot(p) /\ Has(trace[p], "exit0")
            /\ ~WasTouched(trace[p]) /\ err[p] = "nil" /\ iosound[Root(p)])
        => /\ conf[Root(p)] = pre[p].conf
           /\ ~Exists(saved[Root(p)])

\* C1 amended: the same, for a Run entered with a resolv.conf in the
\* chroot or without a side-car file in it.
C1_RoundTrip ==
    \A p \in Procs :
        (Returned(p) /\ InChroot(p) /\ Has(trace[p], "exit0")
            /\ ~WasTouched(trace[p]) /\ err[p] = "nil"
            /\ (Exists(pre[p].conf) \/ ~Exists(pre[p].saved)))
        => /\ conf[Root(p)] = pre[p].conf
           /\ ~Exists(saved[Root(p)])

C1_Witness ==
    \E p \in Procs :
        /\ Returned(p) /\ InChroot(p) /\ Has(trace[p], "exit0")
        /\ ~WasTouched(trace[p]) /\ err[p] = "nil"
        /\ Has(trace[p], "save") /\ Has(trace[p], "restore")
        /\ pre[p].conf = Regular(OrigData)
        /\ conf[Root(p)] = Regular(OrigData)
        /\ ~Exists(saved[Root(p)])

\* C2: after a Run whose command exited successfully and had replaced
\* resolv.conf by other content or by a symbolic link, resolv.conf is as
\* the command left it and there is no side-car file.
C2_NonInterference ==
    \A p \in Procs :
        (Returned(p) /\ InChroot(p) /\ Has(trace[p], "exit0"))
        => /\ Has(trace[p], "touch-write")
                => conf[Root(p)] = Regular(CmdData) /\ ~Exists(saved[Root(p)])
           /\ Has(trace[p], "touch-symlink")
                => conf[Root(p)] = Symlink /\ ~Exists(saved[Root(p)])

C2_Witness ==
    \E p \in Procs :
        /\ Returned(p) /\ InChroot(p) /\ Has(trace[p], "exit0")
        /\ Has(trace[p], "touch-write") /\ Has(trace[p], "restore")
        /\ pre[p].conf = Regular(OrigData)
        /\ conf[Root(p)] = Regular(CmdData)
        /\ ~Exists(saved[Root(p)])

\* C3 as stated: after a Run in chroot or nspawn mode whose command failed
\* or could not be started (and did not modify resolv.conf, no file
\* operation of Run having ever failed on that chroot), no restoration
\* was attempted, resolv.conf is the overlay and the side-car file exists.
C3_AsymmetryAsStated ==
    \A p \in Procs :
        (Returned(p) /\ InChroot(p) /\ CmdFailed(p) /\ ~WasTouched(trace[p])
            /\ iosound[Root(p)])
        => /\ ~Restored(p)
           /\ conf[Root(p)] = Overlay
           /\ Exists(saved[Root(p)])

\* C3 amended: after such a Run no restoration was attempted, resolv.conf
\* is the overlay unless the command modified it, and the side-car is the
\* resolv.conf Run was entered with when there was one, and otherwise what
\* the side-car was when Run was entered (absent, if there was none).
C3_Asymmetry ==
    \A p \in Procs :
        (Returned(p) /\ InChroot(p) /\ CmdFailed(p))
        => /\ ~Restored(p)
           /\ ~WasTouched(trace[p]) => conf[Root(p)] = Overlay
           /\ saved[Root(p)] = IF Exists(pre[p].conf) THEN pre[p].conf
                               ELSE pre[p].saved

C3_Witness ==
    \E p \in Procs :
        /\ Returned(p) /\ InChroot(p) /\ Has(trace[p], "exit1")
        /\ err[p] = "ErrExit"
        /\ pre[p].conf = Regular(OrigData)
        /\ conf[Root(p)] = Overlay
        /\ saved[Root(p)] = Regular(OrigData)

\* C4: after every Run of a sequence of Runs on a chroot, none of whose
\* commands touched resolv.conf (and in none of which a file operation
\* failed), the resolv.conf the chroot had before the first Run
\* is at the original path or at the side-car path, and at the original
\* path when the Run returned nil.
C4_OriginalNeverLost ==
    \A p \in Procs :
        (Returned(p) /\ InChroot(p) /\ untouched[Root(p)] /\ iosound[Root(p)]
            /\ Exists(orig0[Root(p)]))
        => /\ conf[Root(p)] = orig0[Root(p)] \/ saved[Root(p)] = orig0[Root(p)]
           /\ err[p] = "nil" => conf[Root(p)] = orig0[Root(p)]

\* C5: when Run has returned, by whichever path, the partial output line
\* has been flushed exactly once, the service gate has been re-enabled
\* exactly once if it was disabled (and not otherwise), and the injected
\* binary has been removed exactly once if emulation is required (and not
\* otherwise); no step is ever taken twice.
C5_Teardown ==
    \A p \in Procs :
        /\ Count(trace[p], "flush") <= 1
        /\ Count(trace[p], "allow") <= 1
        /\ Count(trace[p], "remove") <= 1
        /\ Returned(p) =>
            /\ Count(trace[p], "flush") = 1
            /\ Count(trace[p], "allow") = Count(trace[p], "deny")
            /\ InChroot(p) => Count(trace[p], "allow") = 1
            /\ Count(trace[p], "remove") = IF q[p].qemusrc # "" THEN 1 ELSE 0
            /\ defers[p] = <<>>

C5_Witness ==
    \E p \in Procs :
        /\ Returned(p) /\ InChroot(p) /\ q[p].qemusrc # ""
        /\ Has(trace[p], "restorefail") /\ err[p] # "nil"
        /\ Count(trace[p], "flush") = 1
        /\ Count(trace[p], "allow") = 1
        /\ Count(trace[p], "remove") = 1

\* positions in the trace of a run: a before b, when both are there
Before(t, a, b) == (Has(t, a) /\ Has(t, b)) => Pos(t, a) < Pos(t, b)

\* C6: with isolation mode none, Deny and Allow are never called. In the
\* other modes Deny is called once, before the subprocess is started;
\* Allow is called once, after the subprocess has exited, failed to start
\* or was not started because the save failed, and before Run returns;
\* and while the subprocess runs the gate of its chroot is denied.
C6_GatePairing ==
    \A p \in Procs :
        /\ ~InChroot(p) => ~Has(trace[p], "deny") /\ ~Has(trace[p], "allow")
        /\ Count(trace[p], "deny") <= 1 /\ Count(trace[p], "allow") <= 1
        /\ Has(trace[p], "allow") => Has(trace[p], "deny")
        /\ (InChroot(p) /\ pc[p] \in {"exec", "running", "restore"})
            => /\ Count(trace[p], "deny") = 1
               /\ ~Has(trace[p], "allow")
               /\ gate[Root(p)] = "denied"
        /\ Before(trace[p], "deny", "spawn")
        /\ Before(trace[p], "deny", "spawnfail")
        /\ Before(trace[p], "deny", "allow")
        /\ Before(trace[p], "exit0", "allow")
        /\ Before(trace[p], "exit1", "allow")
        /\ Before(trace[p], "spawnfail", "allow")
        /\ Before(trace[p], "savefail", "allow")
        /\ (Returned(p) /\ InChroot(p))
            => /\ Count(trace[p], "deny") = 1
               /\ Count(trace[p], "allow") = 1
               /\ gate[Root(p)] = "allowed"

C6_Witness ==
    \E p \in Procs :
        /\ Returned(p) /\ InChroot(p)
        /\ Has(trace[p], "spawn") /\ Has(trace[p], "exit1")
        /\ Pos(trace[p], "deny") < Pos(trace[p], "spawn")
        /\ Pos(trace[p], "exit1") < Pos(trace[p], "allow")
        /\ gate[Root(p)] = "allowed"

\* C7: when emulation is required and the copy of the binary into the
\* chroot fails, Run returns that error; the gate is not disabled, the
\* DNS configuration is not touched and no process is started.
C7_CopyFailureAborts ==
    \A p \in Procs :
        Has(trace[p], "copyfail")
        => /\ ~Has(trace[p], "deny")
           /\ ~Has(trace[p], "save") /\ ~Has(trace[p], "savefail")
           /\ ~Has(trace[p], "spawn") /\ ~Has(trace[p], "spawnfail")
           /\ Returned(p) => err[p] = "ErrCopy"

\* C9: when emulation is required and a chroot is set, the binary is at
\* its path in the chroot while the subprocess runs, and not there when
\* Run has returned.
C9_BinaryPresentWhileRunning ==
    \A p \in Procs :
        q[p].qemusrc # ""
        => /\ pc[p] = "running" => q[p].qemutarget \in bins
           /\ Returned(p) => q[p].qemutarget \notin bins

-----------------------------------------------------------------------------
(* SpecQemu: newQemuHelper on every architecture, on every host *)

QemuCommands ==
    {Command(a, "", CHROOT_METHOD_NONE) : a \in Architectures}
    \cup {Command(a, "/build/root", m) : a \in Architectures, m \in ChrootEnterMethod}

InitQemu ==
    /\ GOARCH \in GoArchs
    /\ InitRest

NextQemu ==
    \E p \in SerialProcs :
        \/ \E c \in QemuCommands : NewCommand(p, c)
        \/ \E cl \in CmdLines : Call(p, cl)
        \/ \E ok \in BOOLEAN : RunQemu(p, ok)

SpecQemu == InitQemu /\ [][NextQemu]_vars

\* the compatibility table: the binary of a target architecture and the
\* hosts that run the target's code themselves
TableBinary(arch) ==
    CASE arch = "armhf" -> "qemu-arm-static"
      [] arch = "armel" -> "qemu-arm-static"
      [] arch = "arm" -> "qemu-arm-static"
      [] arch = "arm64" -> "qemu-aarch64-static"
      [] arch = "mips" -> "qemu-mips-static"
      [] arch = "mipsel" -> "qemu-mipsel-static"
      [] arch = "mips64el" -> "qemu-mips64el-static"
      [] arch = "riscv64" -> "qemu-riscv64-static"
      [] arch = "i386" -> "qemu-i386-static"
      [] arch = "amd64" -> "qemu-x86_64-static"

TableNative(arch) ==
    CASE arch = "armhf" -> {"arm64", "arm"}
      [] arch = "armel" -> {"arm64", "arm"}
      [] arch = "arm" -> {"arm64", "arm"}
      [] arch = "arm64" -> {"arm64"}
      [] arch = "mips" -> {}
      [] arch = "mipsel" -> {"mips64le", "mipsle"}
      [] arch = "mips64el" -> {"mips64le"}
      [] arch = "riscv64" -> {"riscv64"}
      [] arch = "i386" -> {"amd64", "386"}
      [] arch = "amd64" -> {"amd64"}

TableSource(arch, host) ==
    IF host \in TableNative(arch) THEN "" ELSE "/usr/bin/" \o TableBinary(arch)

Arch(p) == cmd[p].Architecture
HelperMade(p) == pc[p] = "assemble"

\* C8 as stated: for every supported architecture and every host the
\* helper's binary is the one of the table, and Run never gets past the
\* helper with a configured architecture outside the supported set.
C8_TableAsStated ==
    \A p \in Procs :
        /\ (HelperMade(p) /\ Arch(p) \in SupportedArchs)
            => q[p].qemusrc = TableSource(Arch(p), GOARCH)
        /\ Arch(p) \notin SupportedArchs \cup {""} => ~HelperMade(p)

\* C8 amended: with a chroot path set, the helper's binary is the one of
\* the table for every supported architecture and every host, placed at
\* the same path under the chroot, and an architecture outside the set
\* takes the fatal path; with no chroot path or no architecture the helper
\* is empty whatever the architecture is, and the fatal path is not taken.
C8_Table ==
    \A p \in Procs :
        /\ (HelperMade(p) /\ Root(p) # "" /\ Arch(p) \in SupportedArchs)
            => /\ q[p].qemusrc = TableSource(Arch(p), GOARCH)
               /\ q[p].qemutarget = IF q[p].qemusrc = "" THEN ""
                                    ELSE Root(p) \o q[p].qemusrc
        /\ (HelperMade(p) /\ (Root(p) = "" \/ Arch(p) = "")) => q[p] = NoQemu
        /\ (Root(p) # "" /\ Arch(p) \notin SupportedArchs \cup {""})
            => ~HelperMade(p)
        /\ Has(trace[p], "panic")
            <=> (aborted /\ pc[p] = "qemu" /\ Root(p) # ""
                   /\ Arch(p) \notin SupportedArchs \cup {""})

C8_Witness ==
    \E p \in Procs :
        /\ HelperMade(p) /\ Root(p) = "/build/root"
        /\ Arch(p) = "armhf" /\ GOARCH = "amd64"
        /\ q[p].qemusrc = "/usr/bin/qemu-arm-static"
        /\ q[p].qemutarget = "/build/root/usr/bin/qemu-arm-static"

-----------------------------------------------------------------------------
(* SpecArgs: Commands built by AddEnv / AddEnvKey / AddBindMount calls, *)
(* and the argument vector Run assembles for them                       *)

ArgCommands ==
    {Command("", "", CHROOT_METHOD_NONE)}
    \cup {Command("", "/build/root", m) : m \in ChrootEnterMethod}

ArgCmdLines == {<<"apt-get", "update">>, <<"true">>}

\* the inputs of the calls; lit is the string the call is to contribute
EnvStrings == {[env |-> "LANG=C", lit |-> "LANG=C"]}
EnvKeys == {[key |-> "LANG", value |-> "C", lit |-> "LANG=C"],
            [key |-> "HOME", value |-> "/root", lit |-> "HOME=/root"]}
BindSpecs == {[source |-> "/pkg/app.deb", target |-> "", lit |-> "/pkg/app.deb"],
              [source |-> "/dev/disk", target |-> "/mnt/disk",
               lit |-> "/dev/disk:/mnt/disk"]}

runState == <<cmdline, q, options, exeEnv, resolvsum, err, defers, trace, pre>>

DoAddEnv(p, e) ==
    /\ pc[p] = "built"
    /\ Len(callLog) < MaxCalls
    /\ cmd' = [cmd EXCEPT ![p] = AddEnv(@, e.env)]
    /\ callLog' = Append(callLog, [op |-> "env", lit |-> e.lit])
    /\ UNCHANGED <<fsVars, buildVars, otherVars, ghostVars, aborted, pc, runState>>

DoAddEnvKey(p, e) ==
    /\ pc[p] = "built"
    /\ Len(callLog) < MaxCalls
    /\ cmd' = [cmd EXCEPT ![p] = AddEnvKey(@, e.key, e.value)]
    /\ callLog' = Append(callLog, [op |-> "env", lit |-> e.lit])
    /\ UNCHANGED <<fsVars, buildVars, otherVars, ghostVars, aborted, pc, runState>>

DoAddBindMount(p, b) ==
    /\ pc[p] = "built"
    /\ Len(callLog) < MaxCalls
    /\ cmd' = [cmd EXCEPT ![p] = AddBindMount(@, b.source, b.target)]
    /\ callLog' = Append(callLog, [op |-> "bind", lit |-> b.lit])
    /\ UNCHANGED <<fsVars, buildVars, otherVars, ghostVars, aborted, pc, runState>>

NextArgs ==
    \E p \in SerialProcs :
        \/ \E c \in ArgCommands : NewCommand(p, c)
        \/ \E e \in EnvStrings : DoAddEnv(p, e)
        \/ \E e \in EnvKeys : DoAddEnvKey(p, e)
        \/ \E b \in BindSpecs : DoAddBindMount(p, b)
        \/ \E cl \in ArgCmdLines : Call(p, cl)
        \/ \E ok \in BOOLEAN : RunQemu(p, ok)
        \/ RunAssemble(p)

SpecArgs == Init /\ [][NextArgs]_vars

IsEnvCall(e) == e.op = "env"
IsBindCall(e) == e.op = "bind"

\* C10: the argument vector assembled by Run after any sequence of AddEnv,
\* AddEnvKey and AddBindMount calls: the command line in mode none;
\* chroot, the chroot path and the command line in chroot mode; in nspawn
\* mode the tool and its seven fixed words, then --setenv K=V for each
\* environment call in call order, then --bind spec for each mount in
\* call order, then -D, the chroot path and the command line.
C10_Options ==
    \A p \in Procs :
        pc[p] = "deny" =>
            LET o == options[p]
                cl == cmdline[p]
                envs == SelectSeq(callLog, IsEnvCall)
                binds == SelectSeq(callLog, IsBindCall)
                n == Len(envs)
                m == Len(binds)
            IN  CASE Method(p) = CHROOT_METHOD_NONE -> o = cl
                  [] Method(p) = CHROOT_METHOD_CHROOT ->
                        /\ Len(o) = 2 + Len(cl)
                        /\ o[1] = "chroot" /\ o[2] = Root(p)
                        /\ \A i \in 1..Len(cl) : o[2 + i] = cl[i]
                  [] Method(p) = CHROOT_METHOD_NSPAWN ->
                        /\ Len(o) = 7 + 2 * n + 2 * m + 2 + Len(cl)
                        /\ SubSeq(o, 1, 7) =
                             <<"systemd-nspawn", "-q", "--resolv-conf=off",
                               "--timezone=off", "--register=no", "--keep-unit",
                               "--console=pipe">>
                        /\ \A i \in 1..n :
                             /\ o[7 + 2 * i - 1] = "--setenv"
                             /\ o[7 + 2 * i] = envs[i].lit
                        /\ \A j \in 1..m :
                             /\ o[7 + 2 * n + 2 * j - 1] = "--bind"
                             /\ o[7 + 2 * n + 2 * j] = binds[j].lit
                        /\ o[7 + 2 * n + 2 * m + 1] = "-D"
                        /\ o[7 + 2 * n + 2 * m + 2] = Root(p)
                        /\ \A i \in 1..Len(cl) : o[7 + 2 * n + 2 * m + 2 + i] = cl[i]

C10_Witness ==
    \E p \in Procs :
        /\ pc[p] = "deny" /\ Method(p) = CHROOT_METHOD_NSPAWN
        /\ callLog = <<[op |-> "bind", lit |-> "/dev/disk:/mnt/disk"],
                       [op |-> "bind", lit |-> "/pkg/app.deb"]>>
        /\ options[p] = <<"systemd-nspawn", "-q", "--resolv-conf=off",
                          "--timezone=off", "--register=no", "--keep-unit",
                          "--console=pipe", "--bind", "/dev/disk:/mnt/disk",
                          "--bind", "/pkg/app.deb", "-D", "/build/root", "true">>


\* the lit of every call of a sequence of calls
Lits(calls) == [i \in DOMAIN calls |-> calls[i].lit]

SaveErrors == {"ErrRename", "ErrRead", "ErrWrite"}
RestoreErrors == {"ErrRead", "ErrRemove", "ErrRename"}

\* C16: when saveResolvConf fails (rename, read of the host file or write
\* of the overlay), Run goes straight to its return with that error: the
\* subprocess is never started and nothing is restored. The value Run
\* returns is the first error among save, start or exit of the subprocess
\* and restore, each of which ends the run, and it is nil when the
\* command exited successfully and the restore succeeded.
C16_FirstErrorReturned ==
    \A p \in Procs :
        LET t == trace[p]
            started == Has(t, "spawn") \/ Has(t, "spawnfail")
        IN  /\ Has(t, "savefail")
                => /\ pc[p] \in {"unwind", "done"}
                   /\ err[p] \in SaveErrors
                   /\ ~started /\ ~Restored(p)
            /\ (Has(t, "spawnfail") /\ pc[p] \in {"unwind", "done"})
                => err[p] = "ErrSpawn" /\ ~Has(t, "spawn") /\ ~Restored(p)
            /\ Has(t, "exit1")
                => /\ pc[p] \in {"unwind", "done"}
                   /\ err[p] = "ErrExit" /\ ~Restored(p)
            /\ Has(t, "restorefail")
                => /\ pc[p] \in {"unwind", "done"}
                   /\ err[p] \in RestoreErrors
            /\ Returned(p)
                => (err[p] = "nil"
                       <=> /\ Has(t, "exit0")
                           /\ InChroot(p) => (Has(t, "save") /\ Has(t, "restore")))

C16_Witness ==
    \E p \in Procs :
        /\ Returned(p) /\ Has(trace[p], "savefail")
        /\ err[p] = "ErrRead"
        /\ ~Has(trace[p], "spawn")
        /\ Has(trace[p], "allow")


\* the run of p was in a chroot, its command removed resolv.conf or
\* replaced it by something that is neither a regular file nor a symbolic
\* link, exited successfully, and Run has returned
RestoredOver(p, how) ==
    /\ Returned(p) /\ InChroot(p)
    /\ Has(trace[p], "exit0")
    /\ Has(trace[p], "touch-" \o how)

\* C17 as stated: in both cases resolv.conf is left as found, a warning
\* is logged, Run returns nil and the side-car file is removed.
C17_MissingOrSpecialAsStated ==
    \A p \in Procs : \A how \in {"delete", "special"} :
        RestoredOver(p, how)
            => /\ conf[Root(p)] = Touched(how)
               /\ Has(trace[p], "warn")
               /\ err[p] = "nil"
               /\ ~Exists(saved[Root(p)])

\* C17 amended: in both cases resolv.conf is left as found, Run returns
\* nil and the side-car file is removed; the warning is logged when
\* resolv.conf is neither a regular file nor a symbolic link, and nothing
\* is logged when it is missing.
C17_MissingOrSpecial ==
    \A p \in Procs : \A how \in {"delete", "special"} :
        RestoredOver(p, how)
            => /\ conf[Root(p)] = Touched(how)
               /\ Has(trace[p], "warn") <=> how = "special"
               /\ err[p] = "nil"
               /\ ~Exists(saved[Root(p)])

C17_Witness ==
    \E p \in Procs :
        /\ RestoredOver(p, "special")
        /\ Exists(pre[p].conf)
        /\ conf[Root(p)] = Special
        /\ Has(trace[p], "warn")

C17_WitnessMissing ==
    \E p \in Procs :
        /\ RestoredOver(p, "delete")
        /\ Exists(pre[p].conf)
        /\ ~Exists(conf[Root(p)])
        /\ ~Has(trace[p], "warn")


\* the place of every event of a run in the order of setup and teardown
Rank(e) ==
    CASE e \in {"copy", "copyfail", "panic"} -> 1
      [] e = "deny" -> 2
      [] e \in {"save", "savefail"} -> 3
      [] e \in {"spawn", "spawnfail"} -> 4
      [] e \in {"touch-" \o how : how \in Touches} -> 5
      [] e \in {"exit0", "exit1"} -> 6
      [] e = "warn" -> 7
      [] e \in {"restore", "restorefail"} -> 8
      [] e = "allow" -> 9
      [] e = "flush" -> 10
      [] e = "remove" -> 11

\* C18: the steps of every run are taken in one order: binary copy, Deny,
\* save, spawn, exit, restore, Allow, flush, binary removal, each at most
\* once. The restore is attempted only after the command exited
\* successfully. Allow, flush and the removal are done on every return,
\* after success and after failure alike, last registered first. The gate
\* is not re-enabled and the binary is not removed while the subprocess
\* runs or before it has been started.
C18_UnwindOrder ==
    \A p \in Procs :
        LET t == trace[p]
        IN  /\ \A i, j \in DOMAIN t : i < j => Rank(t[i]) < Rank(t[j])
            /\ Restored(p) => Has(t, "exit0")
            /\ (Has(t, "allow") \/ Has(t, "flush") \/ Has(t, "remove"))
                => /\ pc[p] \in {"unwind", "done"}
                   /\ Has(t, "spawn") => (Has(t, "exit0") \/ Has(t, "exit1"))
            /\ pc[p] = "running"
                => /\ InChroot(p) => gate[Root(p)] = "denied"
                   /\ defers[p] = <<"Cleanup", "flush">>
                                  \o (IF InChroot(p) THEN <<"Allow">> ELSE <<>>)
            /\ Returned(p)
                => /\ Has(t, "flush")
                   /\ Has(t, "allow") <=> Has(t, "deny")
                   /\ Has(t, "remove") <=> q[p].qemusrc # ""

C18_Witness ==
    \E p \in Procs :
        /\ Returned(p)
        /\ trace[p] = <<"copy", "deny", "save", "spawn", "exit0", "restore",
                        "allow", "flush", "remove">>

C18_WitnessFailure ==
    \E p \in Procs :
        /\ Returned(p)
        /\ trace[p] = <<"copy", "deny", "save", "spawn", "exit1",
                        "allow", "flush", "remove">>


\* C20: when saveResolvConf has failed at any of its steps (and nothing
\* else has) and Run has returned, the resolv.conf the chroot had when Run
\* was entered is at its original path with its content, and there is no
\* side-car file.
C20_FailedSaveLeavesStateUnchanged ==
    \A p \in Procs :
        (Returned(p) /\ InChroot(p) /\ Has(trace[p], "savefail")
            /\ ~Has(trace[p], "copyfail")
            /\ Exists(pre[p].conf) /\ ~Exists(pre[p].saved))
        => /\ conf[Root(p)] = pre[p].conf
           /\ ~Exists(saved[Root(p)])


-----------------------------------------------------------------------------
(* commandWrapper: the io.Writer that exe.Stdout and exe.Stderr are set to. *)
(* Both are the same value, so os/exec feeds it from one goroutine and the  *)
(* calls of Write are sequential; flush is called when exe.Run() is over.   *)

\* the bytes of the streams written, and the sizes of stream and Write
Bytes == {"a", "b", "\n"}
MaxStream == 4
MaxChunk == 2
Chunks == UNION {[1..n -> Bytes] : n \in 0..MaxChunk}

Label == "debootstrap"

\* w.buffer.ReadString('\n'): the bytes up to and including the first
\* newline, or all bytes and io.EOF when there is none
ReadString(buf) ==
    IF \E i \in DOMAIN buf : buf[i] = "\n"
    THEN LET i == CHOOSE k \in DOMAIN buf :
                      buf[k] = "\n" /\ \A j \in 1..(k-1) : buf[j] # "\n"
         IN  [s |-> SubSeq(buf, 1, i), rest |-> SubSeq(buf, i + 1, Len(buf)),
              err |-> "nil"]
    ELSE [s |-> buf, rest |-> <<>>, err |-> "io.EOF"]

\* log.Printf: the text goes to the log as one entry, ended by a newline
\* if it does not end with one
LogPrintf(text) ==
    IF text # <<>> /\ text[Len(text)] = "\n" THEN text ELSE Append(text, "\n")

\* the loop of out: [buffer, lines]
RECURSIVE outLoop(_, _, _, _)
outLoop(label, buf, atEOF, lines) ==
    LET r == ReadString(buf)
    IN  IF r.err = "nil"
        THEN outLoop(label, r.rest, atEOF,
                     Append(lines, LogPrintf(<<label, " | ">> \o r.s)))
        ELSE IF Len(r.s) > 0
        THEN IF atEOF /\ r.err = "io.EOF"
             THEN [buffer |-> r.rest,
                   lines |-> Append(lines,
                                LogPrintf(<<label, " | ">> \o r.s \o <<"\n">>))]
             ELSE [buffer |-> r.rest \o r.s, lines |-> lines]
        ELSE [buffer |-> r.rest, lines |-> lines]

\* out logging the unfinished line on every call
out_AlwaysAtEOF(w, atEOF) == outLoop(w.label, w.buffer, TRUE, <<>>)

\* w.out(atEOF)
out(w, atEOF) == outLoop(w.label, w.buffer, atEOF, <<>>)

runVars == <<fsVars, buildVars, ghostVars, callVars, aborted, pc, q, options,
             exeEnv, resolvsum, err, defers, trace>>

\* w.Write(p): n, err = w.buffer.Write(p); w.out(false)
Write(p) ==
    /\ ~flushed
    /\ Len(stream) + Len(p) <= MaxStream
    /\ LET r == out([label |-> Label, buffer |-> wbuffer \o p], FALSE)
       IN  /\ wbuffer' = r.buffer
           /\ logged' = logged \o r.lines
    /\ stream' = stream \o p
    /\ UNCHANGED <<flushed, runVars, aptVars>>

\* w.flush(): w.out(true)
flush ==
    /\ ~flushed
    /\ LET r == out([label |-> Label, buffer |-> wbuffer], TRUE)
       IN  /\ wbuffer' = r.buffer
           /\ logged' = logged \o r.lines
    /\ flushed' = TRUE
    /\ UNCHANGED <<stream, runVars, aptVars>>

NextWrap ==
    \/ \E p \in Chunks : Write(p)
    \/ flush

SpecWrap == Init /\ [][NextWrap]_vars

\* the positions of the newlines of a stream, the position of the k-th
\* of them and the segment that the k-th ends
Newlines(s) == {i \in DOMAIN s : s[i] = "\n"}
NthNewline(s, k) ==
    IF k = 0 THEN 0
    ELSE CHOOSE i \in Newlines(s) : Cardinality({j \in Newlines(s) : j <= i}) = k
Segment(s, k) == SubSeq(s, NthNewline(s, k - 1) + 1, NthNewline(s, k) - 1)
\* what follows the last newline
Rest(s) == SubSeq(s, NthNewline(s, Cardinality(Newlines(s))) + 1, Len(s))
Labeled(text) == <<Label, " | ">> \o text \o <<"\n">>

\* C12: whatever the stream and however it was split into Write calls,
\* the log holds one labeled line for each newline-terminated segment of
\* the stream, in stream order. Before flush it holds nothing else, and
\* the bytes after the last newline are in the buffer. After flush the
\* buffer is empty, and these bytes, if there are any, are one more
\* labeled line, ended by a newline; if there are none flush has logged
\* nothing.
C12_Framing ==
    LET n == Cardinality(Newlines(stream))
    IN  /\ \A k \in 1..n : k <= Len(logged) /\ logged[k] = Labeled(Segment(stream, k))
        /\ ~flushed => Len(logged) = n /\ wbuffer = Rest(stream)
        /\ flushed =>
            /\ wbuffer = <<>>
            /\ IF Rest(stream) = <<>>
               THEN Len(logged) = n
               ELSE Len(logged) = n + 1 /\ logged[n + 1] = Labeled(Rest(stream))

C12_Witness ==
    /\ stream = <<"a", "\n", "b">>
    /\ flushed
    /\ logged = << <<Label, " | ", "a", "\n">>, <<Label, " | ", "b", "\n">> >>

C12_WitnessRetained ==
    /\ stream = <<"a", "\n", "b", "a">>
    /\ ~flushed
    /\ wbuffer = <<"b", "a">>
    /\ logged = << <<Label, " | ", "a", "\n">> >>


-----------------------------------------------------------------------------
(* SpecConc: two callers, each calling Run once, their steps interleaved;  *)
(* the two chroots are the same one or different ones                      *)

ConcCommands ==
    {Command("armhf", c, m) : c \in Chroots,
                              m \in {CHROOT_METHOD_NSPAWN, CHROOT_METHOD_CHROOT}}

\* an amd64 host: armhf is emulated
InitConc ==
    /\ GOARCH = "amd64"
    /\ InitRest

\* the steps of Run; the binary is copied and the subprocess is started,
\* the subprocess leaves resolv.conf alone, the read of the host's
\* resolv.conf or the rename of the side-car may fail
ConcStep(p) ==
    \/ RunQemu(p, TRUE)
    \/ RunAssemble(p)
    \/ RunDeny(p)
    \/ \E fail \in {"none", "read"} : RunSave(p, fail)
    \/ RunStart(p, TRUE)
    \/ \E ok \in BOOLEAN : RunExit(p, ok)
    \/ \E fail \in {"none", "rename"} : RunRestore(p, fail)
    \/ RunDefer(p)
    \/ RunReturn(p)

NextConc ==
    \E p \in Procs :
        \/ \E c \in ConcCommands : pc[p] = "idle" /\ NewCommand(p, c)
        \/ \E cl \in CmdLines : Call(p, cl)
        \/ ConcStep(p)

SpecConc == InitConc /\ [][NextConc]_vars


\* the binaries a helper may inject, and those present under chroot c
QemuSources == {qemuSwitch(a, g).src : a \in SupportedArchs, g \in GoArchs} \ {""}
BinsUnder(c) == {s \in QemuSources : (c \o s) \in bins}

\* what Run touches under chroot c, and what belongs to caller p
FilesOf(c) == <<conf[c], saved[c], gate[c], BinsUnder(c)>>
LocalsOf(p) == <<pc[p], cmd[p], cmdline[p], q[p], options[p], exeEnv[p],
                 resolvsum[p], err[p], defers[p], trace[p], pre[p]>>

\* caller o takes the step: no step leaves all three the same
Stepped(o) == <<pc[o], trace[o], defers[o]>>' # <<pc[o], trace[o], defers[o]>>

\* no other caller is on the chroot of p
Separate(p) == \A o \in Procs \ {p} : Root(o) # Root(p)

\* what a run that is alone on its chroot has made of resolv.conf and the
\* side-car file it found, what it returns, the gate and the binary,
\* after the steps in t
AloneFiles(pr, t) ==
    LET moved == IF Exists(pr.conf) THEN pr.conf ELSE pr.saved
    IN  CASE Has(t, "savefail") -> [conf |-> NoFile, saved |-> moved]
          [] Has(t, "restore") -> [conf |-> moved, saved |-> NoFile]
          [] Has(t, "restorefail") -> [conf |-> NoFile, saved |-> NoFile]
          [] Has(t, "save") -> [conf |-> Overlay, saved |-> moved]
          [] OTHER -> pr
AloneErr(t) ==
    CASE Has(t, "savefail") -> "ErrRead"
      [] Has(t, "exit1") -> "ErrExit"
      [] Has(t, "restorefail") -> "ErrRename"
      [] OTHER -> "nil"
AloneGate(t) == IF Has(t, "deny") /\ ~Has(t, "allow") THEN "denied" ELSE "allowed"
AloneBins(t) == IF Has(t, "copy") /\ ~Has(t, "remove")
                THEN {"/usr/bin/qemu-arm-static"} ELSE {}

\* a step of caller o changes nothing under a chroot other than its own
\* and nothing that belongs to another caller
ConcFrame ==
    \A o \in Procs :
        Stepped(o) =>
            /\ \A c \in Chroots \ {cmd'[o].Chroot} : FilesOf(c)' = FilesOf(c)
            /\ \A p \in Procs \ {o} : LocalsOf(p)' = LocalsOf(p)

\* C13: when two calls of Run are on different chroots, in every
\* interleaving of their steps, no step of one changes anything under
\* the chroot of the other or anything local to the other, and at every
\* point of each call its chroot's resolv.conf, side-car file, gate and
\* binary, and the error it returns, are those of the same call running
\* alone.
C13_DifferentChrootsIndependent ==
    /\ [][ConcFrame]_vars
    /\ [](\A p \in Procs :
            (pc[p] \notin {"idle", "built"} /\ Separate(p))
            => /\ conf[Root(p)] = AloneFiles(pre[p], trace[p]).conf
               /\ saved[Root(p)] = AloneFiles(pre[p], trace[p]).saved
               /\ gate[Root(p)] = AloneGate(trace[p])
               /\ BinsUnder(Root(p)) = AloneBins(trace[p])
               /\ pc[p] \in {"unwind", "done"} => err[p] = AloneErr(trace[p]))

C13_Witness ==
    /\ Root(1) = "/build/root" /\ Root(2) = "/srv/other"
    /\ Returned(1) /\ err[1] = "nil"
    /\ conf["/build/root"] = Regular(OrigData)
    /\ ~Exists(saved["/build/root"])
    /\ pc[2] = "running"
    /\ conf["/srv/other"] = Overlay
    /\ saved["/srv/other"] = Regular(OrigData)
    /\ gate["/build/root"] = "allowed" /\ gate["/srv/other"] = "denied"
    /\ BinsUnder("/build/root") = {}
    /\ BinsUnder("/srv/other") = {"/usr/bin/qemu-arm-static"}


\* the resolv.conf that chroot c had at the start is at neither path
OriginalLost(c) ==
    /\ Exists(orig0[c])
    /\ conf[c] # orig0[c] /\ saved[c] # orig0[c]

\* another caller on the chroot of p has done step e
PeerDid(p, e) ==
    \E o \in Procs \ {p} : Root(o) = Root(p) /\ Has(trace[o], e)

\* C14: two calls of Run interleaved on the same chroot do race, and on
\* nothing but what they share. While the subprocess of one runs, its
\* gate is found re-enabled only when the other call has called Allow,
\* and its binary is found missing only when the other call has removed
\* it; and when no file operation has failed, the original resolv.conf
\* is lost only when both calls have saved, the second renaming the
\* overlay of the first over the side-car that held the original. Each of
\* the three does happen.
C14_SameChrootRaces ==
    /\ \A p \in Procs :
          pc[p] = "running" =>
              /\ gate[Root(p)] = "allowed" => PeerDid(p, "allow")
              /\ q[p].qemutarget \notin bins => PeerDid(p, "remove")
    /\ \A c \in Chroots :
          (OriginalLost(c) /\ \A p \in Procs : ~Has(trace[p], "restorefail")
                                               /\ ~Has(trace[p], "savefail"))
          => \E p \in Procs :
                /\ Root(p) = c /\ Has(trace[p], "save") /\ PeerDid(p, "save")
                /\ pre[p].conf = orig0[c]

\* all three at once: caller 2 has come and gone, successfully, while the
\* subprocess of caller 1 runs
C14_Witness ==
    /\ Root(1) = "/build/root" /\ Root(2) = "/build/root"
    /\ pc[1] = "running"
    /\ Returned(2) /\ err[2] = "nil"
    /\ OriginalLost("/build/root")
    /\ conf["/build/root"] = Overlay
    /\ q[1].qemutarget \notin bins
    /\ gate["/build/root"] = "allowed"

\* the original is gone for good: both calls have returned nil
C14_WitnessLost ==
    /\ Root(1) = "/build/root" /\ Root(2) = "/build/root"
    /\ Returned(1) /\ err[1] = "nil"
    /\ Returned(2) /\ err[2] = "nil"
    /\ orig0["/build/root"] = Regular(OrigData)
    /\ OriginalLost("/build/root")


-----------------------------------------------------------------------------
(* InstallDpkgAction.Run (actions/install_dpkg_action.go)                   *)
(*                                                                          *)
(* A path is the sequence of the pieces of its string, cut so that one      *)
(* string is a prefix of another exactly when its pieces are a prefix of    *)
(* the other's pieces: "/scratch/rootpkg.deb" is /scratch, /root, pkg.deb.  *)

MaxPkgs == 2

\* the string of a path
RECURSIVE Str(_)
Str(path) == IF path = <<>> THEN "" ELSE Head(path) \o Str(Tail(path))

\* the pieces that begin a path component
Components == {"/scratch", "/root", "/debs", "/recipe", "/a.deb", "/b.deb",
               "/c.deb", "/gone.deb"}

\* the context: the rootfs, the recipe directory and the named origins --
\* the recipe directory, a directory inside the rootfs, two downloaded
\* files in the scratch directory, and an origin whose file is gone
Rootdir == <<"/scratch", "/root">>
RecipeDir == <<"/recipe">>
Origins ==
    ("recipe" :> RecipeDir) @@
    ("overlay" :> <<"/scratch", "/root", "/debs">>) @@
    ("download" :> <<"/scratch", "/c.deb">>) @@
    ("rootpkg" :> <<"/scratch", "/root", "pkg.deb">>) @@
    ("gone" :> <<"/scratch", "/gone.deb">>)
Context == [Architecture |-> "", Rootdir |-> Rootdir, RecipeDir |-> RecipeDir,
            Origins |-> Origins]

\* the file system: the directories, their package files in the order of
\* their names, and the files
Dirs == {<<"/recipe">>, <<"/scratch">>, <<"/scratch", "/root">>,
         <<"/scratch", "/root", "/debs">>}
Entries(dir) ==
    CASE dir = <<"/recipe">> -> <<"/a.deb", "/b.deb">>
      [] dir = <<"/scratch", "/root", "/debs">> -> <<"/a.deb">>
      [] OTHER -> <<>>
Files ==
    UNION {{Append(d, Entries(d)[i]) : i \in 1..Len(Entries(d))} : d \in Dirs}
    \cup {<<"/scratch", "/c.deb">>, <<"/scratch", "/root", "pkg.deb">>}

\* the actions: every origin name, a name that is not registered, none;
\* package lists of file names, a glob, a name without a file and a
\* malformed pattern
OriginNames == {"", "recipe", "overlay", "download", "rootpkg", "gone", "nowhere"}
Patterns == {"/a.deb", "/b.deb", "/*.deb", "/none.deb", "/["}
PackageLists == UNION {[1..n -> Patterns] : n \in 0..MaxPkgs}
DpkgActions ==
    {[Origin |-> o, Packages |-> l, Update |-> u] :
        o \in OriginNames, l \in PackageLists, u \in BOOLEAN}

\* strings.HasPrefix and strings.TrimPrefix
HasPrefix(s, prefix) ==
    Len(prefix) <= Len(s) /\ SubSeq(s, 1, Len(prefix)) = prefix
TrimPrefix(s, prefix) ==
    IF HasPrefix(s, prefix) THEN SubSeq(s, Len(prefix) + 1, Len(s)) ELSE s

\* path.Join(origin, pkg), pkg a file name or a pattern
Join(origin, pkg) == Append(origin, pkg)

\* filepath.Glob: [matches, err]
Glob(source) ==
    LET dir == SubSeq(source, 1, Len(source) - 1)
        pat == source[Len(source)]
    IN  CASE pat = "/[" -> [matches |-> <<>>, err |-> "syntax error in pattern"]
          [] pat = "/*.deb" ->
                [matches |-> [i \in 1..Len(Entries(dir)) |-> Append(dir, Entries(dir)[i])],
                 err |-> "nil"]
          [] OTHER ->
                [matches |-> IF source \in Files THEN <<source>> ELSE <<>>,
                 err |-> "nil"]

\* NewChrootCommandForContext, for a context without EnvironVars and Image
NewChrootCommandForContext(context) ==
    Command(context.Architecture, Str(context.Rootdir), CHROOT_METHOD_NSPAWN)

\* wrapper.NewAptCommand: the wrapper of apt-get around that Command
NewAptCommand(context, label) == NewChrootCommandForContext(context)

\* the named origin, or RecipeDir if no origin is set: [origin, err]
lookupOrigin(a, context) ==
    IF a.Origin # ""
    THEN IF a.Origin \in DOMAIN context.Origins
         THEN [origin |-> context.Origins[a.Origin], err |-> "nil"]
         ELSE [origin |-> <<>>, err |-> "origin not found"]
    ELSE [origin |-> context.RecipeDir, err |-> "nil"]

\* for _, pkg := range apt.Packages: [packages, err]
RECURSIVE globEach(_, _, _)
globEach(origin, pkgs, acc) ==
    IF pkgs = <<>> THEN [packages |-> acc, err |-> "nil"]
    ELSE LET g == Glob(Join(origin, Head(pkgs)))
         IN  IF g.err # "nil" THEN [packages |-> acc, err |-> g.err]
             ELSE IF Len(g.matches) = 0
             THEN [packages |-> acc, err |-> "file(s) not found after globbing"]
             ELSE globEach(origin, Tail(pkgs), acc \o g.matches)

\* the list of full paths of the packages to install: [packages, err]
listPackages(a, origin) ==
    IF origin \notin Dirs \cup Files
    THEN [packages |-> <<>>, err |-> "no such file or directory"]
    ELSE IF origin \in Dirs
    THEN IF Len(a.Packages) = 0
         THEN [packages |-> <<>>, err |-> "no packages defined"]
         ELSE globEach(origin, a.Packages, <<>>)
    ELSE [packages |-> <<origin>>, err |-> "nil"]

\* for idx, pkg := range packages: [packages, cmd, err]
RECURSIVE mountEach(_, _, _, _)
mountEach(pkgs, idx, cmd0, rootdir) ==
    IF idx > Len(pkgs) THEN [packages |-> pkgs, cmd |-> cmd0, err |-> "nil"]
    ELSE LET pkg == pkgs[idx]
         IN  IF \E j \in (idx + 1)..Len(pkgs) : pkgs[j] = pkg
             THEN [packages |-> pkgs, cmd |-> cmd0, err |-> "duplicate package found"]
             ELSE IF HasPrefix(pkg, rootdir)
             THEN mountEach([pkgs EXCEPT ![idx] = TrimPrefix(pkg, rootdir)],
                            idx + 1, cmd0, rootdir)
             ELSE mountEach(pkgs, idx + 1, AddBindMount(cmd0, Str(pkg), ""), rootdir)

NoCall == [op |-> "", packages |-> <<>>, binds |-> <<>>, ok |-> TRUE]
dpkgRest == <<runVars, wrapVars>>

\* the recipe is read: NewInstallDpkgAction() and the properties of the
\* action
NewInstallDpkgAction(a) ==
    /\ apc = "idle"
    /\ action' = a
    /\ apc' = "run"
    /\ aptCommand' = Command("", "", CHROOT_METHOD_NONE)
    /\ resolved' = <<>>
    /\ packages' = <<>>
    /\ aptCalls' = <<>>
    /\ aerr' = "nil"
    /\ UNCHANGED dpkgRest

\* Run up to the first apt operation: the origin, the package list, the
\* bind mounts
DpkgResolve ==
    /\ apc = "run"
    /\ LET c0 == NewAptCommand(Context, "install-dpkg")
           o == lookupOrigin(action, Context)
           l == IF o.err = "nil" THEN listPackages(action, o.origin)
                ELSE [packages |-> <<>>, err |-> o.err]
           m == IF l.err = "nil" THEN mountEach(l.packages, 1, c0, Context.Rootdir)
                ELSE [packages |-> l.packages, cmd |-> c0, err |-> l.err]
       IN  /\ aptCommand' = m.cmd
           /\ resolved' = l.packages
           /\ packages' = m.packages
           /\ aerr' = m.err
           /\ apc' = IF m.err # "nil" THEN "done"
                     ELSE IF action.Update THEN "update" ELSE "install"
    /\ UNCHANGED <<action, aptCalls, dpkgRest>>

\* if apt.Update { aptCommand.Update() }
DpkgUpdate(ok) ==
    /\ apc = "update"
    /\ aptCalls' = Append(aptCalls, [NoCall EXCEPT !.op = "Update", !.ok = ok])
    /\ aerr' = IF ok THEN "nil" ELSE "ErrUpdate"
    /\ apc' = IF ok THEN "install" ELSE "done"
    /\ UNCHANGED <<action, aptCommand, resolved, packages, dpkgRest>>

\* aptCommand.Install(packages, apt.Recommends, apt.Unauthenticated)
DpkgInstall(ok) ==
    /\ apc = "install"
    /\ aptCalls' = Append(aptCalls,
                      [op |-> "Install",
                       packages |-> [i \in DOMAIN packages |-> Str(packages[i])],
                       binds |-> aptCommand.bindMounts, ok |-> ok])
    /\ aerr' = IF ok THEN "nil" ELSE "ErrInstall"
    /\ apc' = IF ok THEN "clean" ELSE "done"
    /\ UNCHANGED <<action, aptCommand, resolved, packages, dpkgRest>>

\* aptCommand.Clean(); return nil
DpkgClean(ok) ==
    /\ apc = "clean"
    /\ aptCalls' = Append(aptCalls, [NoCall EXCEPT !.op = "Clean", !.ok = ok])
    /\ aerr' = IF ok THEN "nil" ELSE "ErrClean"
    /\ apc' = "done"
    /\ UNCHANGED <<action, aptCommand, resolved, packages, dpkgRest>>

NextDpkg ==
    \/ \E a \in DpkgActions : NewInstallDpkgAction(a)
    \/ DpkgResolve
    \/ \E ok \in BOOLEAN : DpkgUpdate(ok)
    \/ \E ok \in BOOLEAN : DpkgInstall(ok)
    \/ \E ok \in BOOLEAN : DpkgClean(ok)

SpecDpkg == Init /\ [][NextDpkg]_vars


\* path is dir or lies under it
UnderDir(path, dir) ==
    /\ HasPrefix(path, dir)
    /\ Len(path) > Len(dir) => path[Len(dir) + 1] \in Components

\* what the origin of the action holds: the file itself, or the package
\* files of the directory
OriginContents(origin) ==
    IF origin \in Dirs THEN [i \in 1..Len(Entries(origin)) |-> Append(origin, Entries(origin)[i])]
    ELSE <<origin>>

\* C15: when the origin of the action is a registered name (and what it
\* names exists) and the packages are omitted, Run does not fail for lack
\* of a package list: the packages are those the origin holds. When the
\* origin is a name that is not registered, Run returns 'origin not found'
\* and no apt operation is called.
C15_NamedOriginPackagesOmitted ==
    apc \notin {"idle", "run"} =>
        /\ (/\ action.Origin \in DOMAIN Origins
            /\ Origins[action.Origin] \in Dirs \cup Files
            /\ action.Packages = <<>>)
           => /\ aerr # "no packages defined"
              /\ resolved = OriginContents(Origins[action.Origin])
        /\ (action.Origin # "" /\ action.Origin \notin DOMAIN Origins)
           => aerr = "origin not found" /\ aptCalls = <<>>

\* the apt operations in their order
AptOrder(a) == IF a.Update THEN <<"Update", "Install", "Clean">>
               ELSE <<"Install", "Clean">>
ResolveErrors == {"origin not found", "no such file or directory",
                  "no packages defined", "syntax error in pattern",
                  "file(s) not found after globbing", "duplicate package found"}
Outside(l) == SelectSeq(l, LAMBDA pkg : ~UnderDir(pkg, Rootdir))

\* C19: the apt operations are called in the order Update (when update is
\* set), Install, Clean, each after the success of the one before, and Run
\* returns the first error; none is called when the packages could not be
\* resolved. When Install is called, the bind mounts of the command are
\* the packages outside the rootfs, once each, in list order, and Install
\* is given every package inside the rootfs without the rootfs prefix and
\* every other package with its full path.
C19_AptOrderAndMounts ==
    LET ops == AptOrder(action)
    IN  /\ Len(aptCalls) <= Len(ops)
        /\ \A i \in DOMAIN aptCalls :
              /\ aptCalls[i].op = ops[i]
              /\ i < Len(aptCalls) => aptCalls[i].ok
        /\ aerr \in ResolveErrors => aptCalls = <<>>
        /\ apc = "done" =>
              \/ aerr \in ResolveErrors
              \/ /\ aptCalls # <<>>
                 /\ LET last == aptCalls[Len(aptCalls)]
                    IN  IF last.ok THEN aerr = "nil" /\ Len(aptCalls) = Len(ops)
                        ELSE aerr = "Err" \o last.op
        /\ \A i \in DOMAIN aptCalls :
              aptCalls[i].op = "Install" =>
                  /\ aptCalls[i].binds =
                        [k \in DOMAIN Outside(resolved) |-> Str(Outside(resolved)[k])]
                  /\ aptCalls[i].packages =
                        [k \in DOMAIN resolved |->
                            IF UnderDir(resolved[k], Rootdir)
                            THEN Str(TrimPrefix(resolved[k], Rootdir))
                            ELSE Str(resolved[k])]

=============================================================================
